---- MODULE Spec2Model ----
(***************************************************************************)
(* Model of the Raycast extension "synthetics-worker-helper": the          *)
(* "Create Worker Branch from JIRA" command (preferences-based variant,    *)
(* src/src/create-worker-branch.tsx lines 152-495).                        *)
(*                                                                         *)
(* Text is modelled as a sequence of one-character strings, so that        *)
(* trimming, upper-casing, the issue-key regular expression and the slug   *)
(* substitutions are computed character by character as the code does.     *)
(***************************************************************************)
EXTENDS Integers, Sequences, FiniteSets, TLC

----------------------------------------------------------------------------
(* Characters (ASCII).                                                     *)

Lower == <<"a","b","c","d","e","f","g","h","i","j","k","l","m",
           "n","o","p","q","r","s","t","u","v","w","x","y","z">>

Upper == <<"A","B","C","D","E","F","G","H","I","J","K","L","M",
           "N","O","P","Q","R","S","T","U","V","W","X","Y","Z">>

Digit == {"0","1","2","3","4","5","6","7","8","9"}

\* The white space of \s and String.prototype.trim (blank, tab, line feed).
Space == {" ", "\t", "\n"}

LowerChars == { Lower[i] : i \in 1..26 }

UpperChars == { Upper[i] : i \in 1..26 }

UpperOf == [ c \in LowerChars |-> Upper[CHOOSE i \in 1..26 : Lower[i] = c] ]

LowerOf == [ c \in UpperChars |-> Lower[CHOOSE i \in 1..26 : Upper[i] = c] ]

IsLower(c) == c \in LowerChars

IsUpper(c) == c \in UpperChars

IsDigit(c) == c \in Digit

IsSpace(c) == c \in Space

\* A word character of the regular expression engine: \w, the class \b tests.
IsWordChar(c) == IsLower(c) \/ IsUpper(c) \/ IsDigit(c) \/ c = "_"

\* [A-Z0-9_]
IsKeyChar(c) == IsUpper(c) \/ IsDigit(c) \/ c = "_"

toUpperChar(c) == IF IsLower(c) THEN UpperOf[c] ELSE c

toLowerChar(c) == IF IsUpper(c) THEN LowerOf[c] ELSE c

\* String.prototype.toUpperCase
toUpperCase(s) == [i \in 1..Len(s) |-> toUpperChar(s[i])]

\* String.prototype.toLowerCase
toLowerCase(s) == [i \in 1..Len(s) |-> toLowerChar(s[i])]

RECURSIVE TrimStart(_)
TrimStart(s) == IF s # <<>> /\ IsSpace(Head(s)) THEN TrimStart(Tail(s)) ELSE s

RECURSIVE TrimEnd(_)
TrimEnd(s) ==
    IF s # <<>> /\ IsSpace(s[Len(s)]) THEN TrimEnd(SubSeq(s, 1, Len(s) - 1)) ELSE s

\* String.prototype.trim
Trim(s) == TrimEnd(TrimStart(s))

\* s.replace(/\s+/g, "")
RECURSIVE RemoveSpaces(_)
RemoveSpaces(s) ==
    IF s = <<>> THEN <<>>
    ELSE IF IsSpace(Head(s)) THEN RemoveSpaces(Tail(s))
    ELSE <<Head(s)>> \o RemoveSpaces(Tail(s))

\* s.startsWith(p)
StartsWith(s, p) == Len(s) >= Len(p) /\ SubSeq(s, 1, Len(p)) = p

\* /^\d+$/.test(s)
IsAllDigits(s) == s # <<>> /\ \A i \in 1..Len(s) : IsDigit(s[i])

----------------------------------------------------------------------------
(* The ticket reference resolver.                                          *)

DEFAULT_JIRA_PROJECT_KEY == <<"S","Y","N","T","H">>

\* normalizeProjectKey: trim, 'SYNTH' when blank, upper-case.
normalizeProjectKey(input) ==
    LET trimmed == Trim(input)
    IN  toUpperCase(IF trimmed # <<>> THEN trimmed ELSE DEFAULT_JIRA_PROJECT_KEY)

\* Greedy [A-Z0-9_]+ from position i: the last position of the run (i - 1 when
\* the run is empty).
RECURSIVE KeyRunEnd(_, _)
KeyRunEnd(u, i) ==
    IF i <= Len(u) /\ IsKeyChar(u[i]) THEN KeyRunEnd(u, i + 1) ELSE i - 1

\* Greedy \d+ from position i.
RECURSIVE DigitRunEnd(_, _)
DigitRunEnd(u, i) ==
    IF i <= Len(u) /\ IsDigit(u[i]) THEN DigitRunEnd(u, i + 1) ELSE i - 1

\* \b at the gap before position i (i = Len(u) + 1: the end of the text).
WordBoundary(u, i) ==
    LET before == i > 1 /\ IsWordChar(u[i - 1])
        after  == i <= Len(u) /\ IsWordChar(u[i])
    IN  before # after

\* The pairs <<j, k>> with which /\b([A-Z][A-Z0-9_]+-\d+)\b/ matches at position
\* i: the key is u[i..j], the hyphen u[j+1], the number u[j+2..k]. The engine
\* gives back characters of a greedy run one at a time (backtracking).
MatchesAt(u, i) ==
    IF ~(i <= Len(u) /\ WordBoundary(u, i) /\ IsUpper(u[i])) THEN {}
    ELSE { jk \in ((i + 1)..KeyRunEnd(u, i + 1)) \X (1..Len(u)) :
              /\ jk[1] + 1 <= Len(u)
              /\ u[jk[1] + 1] = "-"
              /\ jk[2] \in (jk[1] + 2)..DigitRunEnd(u, jk[1] + 2)
              /\ WordBoundary(u, jk[2] + 1) }

\* The match the engine reports at position i: the longest key, then the
\* longest number (greedy quantifiers).
MatchEnd(u, i) ==
    LET ms == MatchesAt(u, i)
        j  == CHOOSE j \in {m[1] : m \in ms} : \A m \in ms : m[1] <= j
    IN  CHOOSE k \in {m[2] : m \in {n \in ms : n[1] = j}} :
            \A m \in {n \in ms : n[1] = j} : m[2] <= k

\* The leftmost match from position i on.
RECURSIVE SearchIssueKey(_, _)
SearchIssueKey(u, i) ==
    IF i > Len(u) THEN [found |-> FALSE, key |-> <<>>]
    ELSE IF MatchesAt(u, i) # {}
         THEN [found |-> TRUE, key |-> SubSeq(u, i, MatchEnd(u, i))]
         ELSE SearchIssueKey(u, i + 1)

\* extractIssueKey without toUpperCase: a case-sensitive search.
extractIssueKeyCaseSensitive(input) == SearchIssueKey(input, 1)

\* extractIssueKey: the first match in the upper-cased text, or null
\* (found = FALSE).
extractIssueKey(input) == SearchIssueKey(toUpperCase(input), 1)

HTTP == <<"h","t","t","p",":","/","/">>

HTTPS == <<"h","t","t","p","s",":","/","/">>

isProbablyUrl(input) ==
    LET trimmed == toLowerCase(Trim(input))
    IN  StartsWith(trimmed, HTTP) \/ StartsWith(trimmed, HTTPS)

\* normalizeJiraIdFromInput testing /^\d+$/ on the trimmed text: inner white
\* space is not removed.
normalizeJiraIdFromInputInnerSpace(input, defaultProjectKey) ==
    LET trimmed  == Trim(input)
        issueKey == extractIssueKey(trimmed)
    IN  IF trimmed = <<>> THEN <<>>
        ELSE IF isProbablyUrl(trimmed)
             THEN (IF issueKey.found THEN issueKey.key ELSE <<>>)
        ELSE IF issueKey.found /\ issueKey.key # <<>> THEN issueKey.key
        ELSE IF IsAllDigits(trimmed) THEN defaultProjectKey \o <<"-">> \o trimmed
        ELSE <<>>

\* normalizeJiraIdFromInput returning the text the user typed when it holds an
\* issue key, instead of the key.
normalizeJiraIdFromInputAsTyped(input, defaultProjectKey) ==
    LET trimmed  == Trim(input)
        issueKey == extractIssueKey(trimmed)
        digits   == RemoveSpaces(trimmed)
    IN  IF trimmed = <<>> THEN <<>>
        ELSE IF isProbablyUrl(trimmed)
             THEN (IF issueKey.found THEN issueKey.key ELSE <<>>)
        ELSE IF issueKey.found /\ issueKey.key # <<>> THEN trimmed
        ELSE IF IsAllDigits(digits) THEN defaultProjectKey \o <<"-">> \o digits
        ELSE <<>>

\* normalizeJiraIdFromInput: "" (no reference) is the empty sequence.
normalizeJiraIdFromInput(input, defaultProjectKey) ==
    LET trimmed  == Trim(input)
        issueKey == extractIssueKey(trimmed)
        digits   == RemoveSpaces(trimmed)
    IN  IF trimmed = <<>> THEN <<>>
        ELSE IF isProbablyUrl(trimmed)
             THEN (IF issueKey.found THEN issueKey.key ELSE <<>>)
        ELSE IF issueKey.found /\ issueKey.key # <<>> THEN issueKey.key
        ELSE IF IsAllDigits(digits) THEN defaultProjectKey \o <<"-">> \o digits
        ELSE <<>>

\* /^[A-Z][A-Z0-9_]+-\d+$/.test(s), the pattern handleSubmit validates with.
MatchesIssueKeyPattern(s) ==
    /\ s # <<>>
    /\ IsUpper(s[1])
    /\ LET j == KeyRunEnd(s, 2)
       IN  /\ j >= 2
           /\ j + 1 <= Len(s)
           /\ s[j + 1] = "-"
           /\ DigitRunEnd(s, j + 2) = Len(s)
           /\ Len(s) >= j + 2

----------------------------------------------------------------------------
(* The description slug and the branch name.                               *)

\* [a-z0-9]
IsSlugChar(c) == IsLower(c) \/ IsDigit(c)

RECURSIVE SkipNonSlug(_)
SkipNonSlug(s) ==
    IF s # <<>> /\ ~IsSlugChar(Head(s)) THEN SkipNonSlug(Tail(s)) ELSE s

\* s.replace(/[^a-z0-9]+/g, "-")
RECURSIVE ReplaceNonSlugRuns(_)
ReplaceNonSlugRuns(s) ==
    IF s = <<>> THEN <<>>
    ELSE IF IsSlugChar(Head(s)) THEN <<Head(s)>> \o ReplaceNonSlugRuns(Tail(s))
    ELSE <<"-">> \o ReplaceNonSlugRuns(SkipNonSlug(s))

RECURSIVE StripLeadingHyphens(_)
StripLeadingHyphens(s) ==
    IF s # <<>> /\ Head(s) = "-" THEN StripLeadingHyphens(Tail(s)) ELSE s

RECURSIVE StripTrailingHyphens(_)
StripTrailingHyphens(s) ==
    IF s # <<>> /\ s[Len(s)] = "-"
    THEN StripTrailingHyphens(SubSeq(s, 1, Len(s) - 1)) ELSE s

\* sanitizeDescription without the trimming of leading and trailing hyphens.
sanitizeDescriptionUntrimmed(description) ==
    ReplaceNonSlugRuns(toLowerCase(description))

\* sanitizeDescription trimming the hyphens before it replaces the runs.
sanitizeDescriptionTrimFirst(description) ==
    ReplaceNonSlugRuns(StripTrailingHyphens(StripLeadingHyphens(
        toLowerCase(description))))

\* sanitizeDescription: lower-case, runs outside [a-z0-9] -> "-", then
\* .replace(/^-+|-+$/g, "").
sanitizeDescription(description) ==
    StripTrailingHyphens(StripLeadingHyphens(
        ReplaceNonSlugRuns(toLowerCase(description))))

\* createBranch, line 248: `${gitUsername}/${jiraId}/${sanitizedDesc}`.
BranchName(gitUsername, jiraId, description) ==
    gitUsername \o <<"/">> \o jiraId \o <<"/">> \o sanitizeDescription(description)

\* The command line of `git checkout -b "<branchName>"`.
CheckoutNewBranch(branchName) ==
    <<"git checkout -b ", "\"">> \o branchName \o <<"\"">>

CheckoutProd == <<"git checkout prod">>

Pull == <<"git pull">>

\* createBranch pulling before it checks prod out.
createBranchPullFirst(baseBranch, branchName) ==
    IF baseBranch = "prod"
    THEN <<Pull, CheckoutProd, CheckoutNewBranch(branchName)>>
    ELSE <<CheckoutNewBranch(branchName)>>

\* createBranch: the commands it awaits, in order.
createBranch(baseBranch, branchName) ==
    IF baseBranch = "prod"
    THEN <<CheckoutProd, Pull, CheckoutNewBranch(branchName)>>
    ELSE <<CheckoutNewBranch(branchName)>>

\* What the promisified child_process.exec rejects with when the command exits
\* non-zero: an Error whose message is "Command failed: <cmd>\n<stderr>" and
\* which carries the captured stderr as a property.
ExecError(cmd, stderr) ==
    [ instanceofError |-> TRUE,
      message |-> <<"Command failed: ">> \o cmd \o <<"\n">> \o stderr,
      stderr  |-> stderr ]

\* handleSubmit's catch: the text put in the 'Failed to create branch' toast.
CatchMessage(error) ==
    IF error.instanceofError THEN error.message ELSE error.stderr

----------------------------------------------------------------------------
(* The remote summary lookup.                                              *)

\* fetchJiraSummary returning the summary as the response holds it.
fetchJiraSummaryUntrimmed(res) ==
    IF ~res.ok
    THEN [ threw |-> TRUE, value |-> <<>>,
           message |-> <<"Jira request failed (", res.status, "): ">>
                       \o (IF res.readable /\ res.body # <<>>
                           THEN res.body ELSE res.statusText) ]
    ELSE IF res.json = "invalid"
    THEN [ threw |-> TRUE, value |-> <<>>, message |-> <<"SyntaxError">> ]
    ELSE IF ~res.hasSummary \/ res.summary = <<>>
    THEN [ threw |-> TRUE, value |-> <<>>,
           message |-> <<"Jira response missing fields.summary">> ]
    ELSE [ threw |-> FALSE, value |-> res.summary, message |-> <<>> ]

\* fetchJiraSummary, after its one GET returned `res`: the trimmed summary, or
\* the Error it throws. `readable` is whether res.text() resolves, `json`
\* whether res.json() parses the body ("object") or rejects ("invalid").
fetchJiraSummary(res) ==
    LET text    == IF res.readable THEN res.body ELSE <<>>
        summary == IF res.hasSummary THEN Trim(res.summary) ELSE <<>>
    IN  IF ~res.ok
        THEN [ threw |-> TRUE, value |-> <<>>,
               message |-> <<"Jira request failed (", res.status, "): ">>
                           \o (IF text # <<>> THEN text ELSE res.statusText) ]
        ELSE IF res.json = "invalid"
        THEN [ threw |-> TRUE, value |-> <<>>, message |-> <<"SyntaxError">> ]
        ELSE IF summary = <<>>
        THEN [ threw |-> TRUE, value |-> <<>>,
               message |-> <<"Jira response missing fields.summary">> ]
        ELSE [ threw |-> FALSE, value |-> summary, message |-> <<>> ]

----------------------------------------------------------------------------
(* Inputs.                                                                 *)

\* The largest value the request sequence number autofillReqIdRef may reach.
MaxReq == 3

\* The number of parts a text given to the resolver on its own is made of.
MaxParts == 3

\* Texts the user may put in the "Paste Jira Link" field.
LinkInputs ==
    { <<>>,
      HTTPS \o <<"j","/","a","b","-","1">>,       \* https://j/ab-1
      <<"1","2">> }                                 \* digits only

\* Texts the user may type in the "Jira ID" field.
IdInputs ==
    { <<>>,
      <<"C","D","-","2">>,
      <<" ","7"," ","1">>,                         \* digits with white space
      <<"n","o">> }                                 \* neither a key nor digits

\* Texts the user may type in the "Description" field.
DescInputs ==
    { <<>>,
      <<" ">>,
      <<"!","!">>,                                  \* no letter, no digit
      <<"F","i","x"," ","i","t">> }

\* Values of the "Base Branch" dropdown.
BaseBranches == {"prod", "current"}

\* The extension preferences a session may run with.
Preferences ==
    { [ workerDir |-> <<"/","w">>, gitUsername |-> <<"j"," ","d">>,
        jiraEmail |-> <<"m">>, jiraApiToken |-> <<"t">>,
        jiraDefaultProjectKey |-> <<>> ],
      [ workerDir |-> <<"/","w">>, gitUsername |-> <<"j","d">>,
        jiraEmail |-> <<>>, jiraApiToken |-> <<"t">>,
        jiraDefaultProjectKey |-> <<"x">> ],
      [ workerDir |-> <<" ">>, gitUsername |-> <<"j","d">>,
        jiraEmail |-> <<>>, jiraApiToken |-> <<>>,
        jiraDefaultProjectKey |-> <<" ","q","a">> ],
      [ workerDir |-> <<"/","w">>, gitUsername |-> <<" ">>,
        jiraEmail |-> <<>>, jiraApiToken |-> <<>>,
        jiraDefaultProjectKey |-> <<>> ] }

\* Responses of the Jira REST API to the lookup's GET.
Responses ==
    { [ ok |-> TRUE, status |-> "200", statusText |-> <<"OK">>, body |-> <<>>,
        readable |-> TRUE, json |-> "object",
        hasSummary |-> TRUE, summary |-> <<"D","o"," ","i","t"," ">> ],
      [ ok |-> TRUE, status |-> "200", statusText |-> <<"OK">>, body |-> <<>>,
        readable |-> TRUE, json |-> "object",
        hasSummary |-> FALSE, summary |-> <<>> ],
      [ ok |-> FALSE, status |-> "404", statusText |-> <<"Not Found">>, body |-> <<>>,
        readable |-> TRUE, json |-> "invalid",
        hasSummary |-> FALSE, summary |-> <<>> ] }

\* What a failing git command may have written to its standard error.
GitStderr == { <<"fatal: not a git repository">> }

----------------------------------------------------------------------------
(* State.                                                                  *)

VARIABLES
    prefs,      \* getPreferenceValues(): the extension preferences
    form,       \* the Command component: its useState values and useRef cells,
                \* and the pending debounce timer of the auto-fill effect
    inflight,   \* lookups whose timer fired and whose GET has not returned:
                \* [reqId, jiraId] of the closure, and `changed`: whether the
                \* jiraId state changed since the request was started
    applied,    \* the lookup whose summary was last written to the description
    notice,     \* the toast last shown by the auto-fill effect, with the
                \* reference it is about and `repeat`: whether that reference
                \* was in `notified` when the toast was shown
    notified,   \* the references a 'Failed to fetch Jira summary' toast was
                \* shown for since the jiraId state last changed
    submit,     \* the running or last handleSubmit call
    probe,      \* the resolver applied to one text, and the form submitted
                \* with that text in its Jira ID field (SpecResolver)
    slug,       \* sanitizeDescription applied to one text, and to its own
                \* result (SpecSlug)
    fetch,      \* one call of fetchJiraSummary (SpecFetch)
    pipelines   \* the Command component of the "Open GitLab Pipelines" list

vars == <<prefs, form, inflight, applied, notice, notified, submit, probe,
          slug, fetch, pipelines>>

\* useMemo(() => normalizeProjectKey(prefs.jiraDefaultProjectKey))
defaultProjectKey == normalizeProjectKey(prefs.jiraDefaultProjectKey)

InitForm ==
    [ jiraUrlInput |-> <<>>,
      jiraIdInput |-> <<>>,
      jiraId |-> <<>>,
      description |-> <<>>,
      descriptionDirty |-> FALSE,
      lastAutofilledJiraIdInputFromUrlRef |-> <<>>,
      lastAutofilledJiraIdRef |-> <<>>,
      lastAutofillErrorJiraIdRef |-> <<>>,
      autofillReqIdRef |-> 0,
      timer |-> {} ]

IdleSubmit ==
    [ pc |-> "idle",
      values |-> [ jiraUrl |-> <<>>, jiraId |-> <<>>, description |-> <<>>,
                   baseBranch |-> "prod" ],
      jiraId |-> <<>>,
      branchName |-> <<>>,
      ran |-> <<>>,
      exits |-> <<>>,
      stderr |-> <<>>,
      toasts |-> <<>>,
      openedPreferences |-> FALSE,
      hud |-> <<>> ]

IdleProbe == [ pc |-> "off", text |-> <<>>, out |-> <<>>, rejection |-> <<>> ]

IdleSlug == [ pc |-> "off", text |-> <<>>, out |-> <<>>, again |-> <<>> ]

IdleFetch == [ pc |-> "off", gets |-> 0 ]

\* The "Open GitLab Pipelines" list once mounted: its useState values and
\* useRef cells after the first run of both effects (reload() is awaiting
\* loadBranches; currentRef is empty, so the auto-select effect returned).
\* `timer` is the pending 150 ms timer, `loads` the calls of loadBranches not
\* settled yet, `reloaded` the reloads the user asked for, `effectDeps` the
\* [currentRef, selectedItemId] the auto-select effect last ran with, and
\* `event` the last onSelectionChange call and whether it was recorded.
InitPipelines ==
    [ isLoading |-> TRUE,
      currentRef |-> <<>>,
      branches |-> {},
      error |-> <<>>,
      selectedItemId |-> <<"open-gitlab">>,
      userInteractedRef |-> FALSE,
      autoSelectedRef |-> FALSE,
      autoSelectingRef |-> FALSE,
      timer |-> FALSE,
      loads |-> 1,
      reloaded |-> 0,
      effectDeps |-> << <<>>, <<"open-gitlab">> >>,
      event |-> [ id |-> <<>>, recorded |-> FALSE ] ]

\* The other command and the functions called on their own stay as they are.
aside == <<slug, fetch, pipelines>>

Init ==
    /\ prefs \in Preferences
    /\ form = InitForm
    /\ inflight = {}
    /\ applied = {}
    /\ notice = {}
    /\ notified = {}
    /\ submit = IdleSubmit
    /\ probe = IdleProbe
    /\ slug = IdleSlug
    /\ fetch = IdleFetch
    /\ pipelines = InitPipelines

----------------------------------------------------------------------------
(* The component's effects.                                                *)

\* The first useEffect (deps jiraUrlInput, jiraIdInput, defaultProjectKey), run
\* on the rendered state f: it may fill the Jira ID input from the link, and
\* sets jiraId from the Jira ID input of this render.
JiraIdEffect(f) ==
    LET fromUrl == normalizeJiraIdFromInput(f.jiraUrlInput, defaultProjectKey)
        fill    == /\ fromUrl # <<>>
                   /\ \/ f.jiraIdInput = <<>>
                      \/ f.jiraIdInput = f.lastAutofilledJiraIdInputFromUrlRef
    IN  [ f EXCEPT
            !.lastAutofilledJiraIdInputFromUrlRef = IF fill THEN fromUrl ELSE @,
            !.jiraIdInput = IF fill THEN fromUrl ELSE @,
            !.jiraId = normalizeJiraIdFromInput(f.jiraIdInput, defaultProjectKey) ]

\* Whether the second useEffect returns before it starts a lookup.
AutofillSkipped(f) ==
    \/ f.jiraId = <<>>
    \/ f.descriptionDirty /\ Trim(f.description) # <<>>
    \/ f.lastAutofilledJiraIdRef = f.jiraId /\ f.description # <<>>
    \/ Trim(prefs.jiraEmail) = <<>>
    \/ Trim(prefs.jiraApiToken) = <<>>

\* The second useEffect (deps jiraId, descriptionDirty, description), run on
\* the rendered state f after the cleanup of its previous run (clearTimeout):
\* it takes the next request number and arms the 450 ms timer.
AutofillEffect(f) ==
    IF AutofillSkipped(f)
    THEN [ f EXCEPT !.timer = {} ]
    ELSE [ f EXCEPT
             !.autofillReqIdRef = @ + 1,
             !.timer = { [ reqId |-> f.autofillReqIdRef + 1, jiraId |-> f.jiraId ] } ]

\* One commit: the effects whose dependencies changed since the render `prev`
\* run on the rendered state `cur`, and the state they set is applied.
Commit(prev, cur) ==
    LET deps1 == <<prev.jiraUrlInput, prev.jiraIdInput>>
                     # <<cur.jiraUrlInput, cur.jiraIdInput>>
        deps2 == <<prev.jiraId, prev.descriptionDirty, prev.description>>
                     # <<cur.jiraId, cur.descriptionDirty, cur.description>>
        e1    == IF deps1 THEN JiraIdEffect(cur) ELSE cur
        e2    == IF deps2 THEN AutofillEffect(cur) ELSE cur
    IN  [ e1 EXCEPT !.autofillReqIdRef = e2.autofillReqIdRef,
                    !.timer = e2.timer ]

\* React after a state change: render `cur` (the last committed render was
\* `prev`), run the effects, and render again until nothing changes.
RECURSIVE Render(_, _)
Render(prev, cur) ==
    CHOOSE out \in { IF next = cur THEN cur ELSE Render(cur, next) :
                       next \in {Commit(prev, cur)} } : TRUE

\* The lookups in flight, after the form went from f to g.
Aged(f, g) ==
    { [ r EXCEPT !.changed = @ \/ g.jiraId # f.jiraId ] : r \in inflight }

\* A state change of the component: the new state is rendered and the effects
\* run.
SetState(g) ==
    \E h \in {Render(form, g)} :
        /\ h.autofillReqIdRef <= MaxReq
        /\ form' = h
        /\ inflight' = Aged(form, h)
        /\ notified' = IF h.jiraId # form.jiraId THEN {} ELSE notified

\* popToRoot closes the command.
Mounted == submit.pc # "done"

----------------------------------------------------------------------------
(* The user edits the form.                                                *)

\* onChange of the "Paste Jira Link" field: setJiraUrlInput.
EditJiraUrl(v) ==
    /\ Mounted /\ submit.pc = "idle"
    /\ v # form.jiraUrlInput
    /\ SetState([ form EXCEPT !.jiraUrlInput = v ])
    /\ UNCHANGED <<prefs, applied, notice, submit, probe, aside>>

\* onChange of the "Jira ID" field: setJiraIdInput.
EditJiraId(v) ==
    /\ Mounted /\ submit.pc = "idle"
    /\ v # form.jiraIdInput
    /\ SetState([ form EXCEPT !.jiraIdInput = v ])
    /\ UNCHANGED <<prefs, applied, notice, submit, probe, aside>>

\* onChange of the "Description" field: setDescription, setDescriptionDirty(true).
EditDescription(v) ==
    /\ Mounted /\ submit.pc = "idle"
    /\ v # form.description \/ ~form.descriptionDirty
    /\ SetState([ form EXCEPT !.description = v, !.descriptionDirty = TRUE ])
    /\ UNCHANGED <<prefs, applied, notice, submit, probe, aside>>

----------------------------------------------------------------------------
(* The description auto-fill.                                              *)

\* The 450 ms timer fires: the callback calls fetchJiraSummary, whose GET is
\* now in flight.
TimerFires ==
    /\ Mounted
    /\ \E t \in form.timer :
          /\ form' = [ form EXCEPT !.timer = {} ]
          /\ inflight' = inflight \cup
                 { [ reqId |-> t.reqId, jiraId |-> t.jiraId, changed |-> FALSE ] }
    /\ UNCHANGED <<prefs, applied, notice, notified, submit, probe, aside>>

\* The GET of lookup r returns a response from which fetchJiraSummary returns a
\* summary: the rest of the try block.
LookupReturns(r, res) ==
    /\ Mounted
    /\ r \in inflight
    /\ ~fetchJiraSummary(res).threw
    /\ IF r.reqId # form.autofillReqIdRef
       THEN /\ inflight' = inflight \ {r}
            /\ UNCHANGED <<form, applied>>
       ELSE LET g == [ form EXCEPT
                         !.lastAutofilledJiraIdRef = r.jiraId,
                         !.lastAutofillErrorJiraIdRef = <<>>,
                         !.description = fetchJiraSummary(res).value ]
            IN  \E h \in {Render(form, g)} :
                    /\ h.autofillReqIdRef <= MaxReq
                    /\ form' = h
                    /\ inflight' = inflight \ {r}
                    /\ applied' = { [ jiraId |-> r.jiraId, changed |-> r.changed ] }
    /\ UNCHANGED <<prefs, notice, notified, submit, probe, aside>>

\* The catch block also emptying the description.
LookupThrowsClearingDescription(r, res) ==
    /\ Mounted
    /\ r \in inflight
    /\ fetchJiraSummary(res).threw
    /\ notice' = { [ style |-> "Failure",
                     title |-> "Failed to fetch Jira summary",
                     message |-> fetchJiraSummary(res).message,
                     jiraId |-> r.jiraId,
                     repeat |-> r.jiraId \in notified ] }
    /\ notified' = notified \cup {r.jiraId}
    /\ \E h \in {Render(form, [ form EXCEPT !.lastAutofillErrorJiraIdRef = r.jiraId,
                                            !.description = <<>> ])} :
           /\ h.autofillReqIdRef <= MaxReq
           /\ form' = h
           /\ inflight' = inflight \ {r}
    /\ UNCHANGED <<prefs, applied, submit, probe, aside>>

\* The GET of lookup r returns a response on which fetchJiraSummary throws: the
\* catch block.
LookupThrows(r, res) ==
    /\ Mounted
    /\ r \in inflight
    /\ fetchJiraSummary(res).threw
    /\ inflight' = inflight \ {r}
    /\ IF form.lastAutofillErrorJiraIdRef = r.jiraId
       THEN UNCHANGED <<form, notice, notified>>
       ELSE /\ form' = [ form EXCEPT !.lastAutofillErrorJiraIdRef = r.jiraId ]
            /\ notice' = { [ style |-> "Failure",
                             title |-> "Failed to fetch Jira summary",
                             message |-> fetchJiraSummary(res).message,
                             jiraId |-> r.jiraId,
                             repeat |-> r.jiraId \in notified ] }
            /\ notified' = notified \cup {r.jiraId}
    /\ UNCHANGED <<prefs, applied, submit, probe, aside>>

----------------------------------------------------------------------------
(* Submit: handleSubmit and createBranch. handleSubmit works on the values  *)
(* it was called with, so one submission is followed to its outcome before *)
(* the form is edited or submitted again.                                  *)

\* handleSubmit preferring the Jira ID field: normalizedFromId || normalizedFromUrl.
SubmitJiraIdIdFirst(jiraUrl, jiraIdText) ==
    LET normalizedFromUrl == normalizeJiraIdFromInput(jiraUrl, defaultProjectKey)
        normalizedFromId  == normalizeJiraIdFromInput(jiraIdText, defaultProjectKey)
    IN  IF normalizedFromId # <<>> THEN normalizedFromId ELSE normalizedFromUrl

\* handleSubmit, lines 371-373: normalizedFromUrl || normalizedFromId.
SubmitJiraId(jiraUrl, jiraIdText) ==
    LET normalizedFromUrl == normalizeJiraIdFromInput(jiraUrl, defaultProjectKey)
        normalizedFromId  == normalizeJiraIdFromInput(jiraIdText, defaultProjectKey)
    IN  IF normalizedFromUrl # <<>> THEN normalizedFromUrl ELSE normalizedFromId

\* handleSubmit trimming the git username only.
SubmitGitUsernameTrimmed == Trim(prefs.gitUsername)

\* handleSubmit, line 379: .trim().replace(/\s+/g, "")
SubmitGitUsername == RemoveSpaces(Trim(prefs.gitUsername))

FailureToast(title, message) ==
    [ style |-> "Failure", title |-> title, message |-> message ]

\* handleSubmit checking the description before the ticket reference.
SubmitRejectionDescriptionFirst(values) ==
    LET normalizedJiraId      == SubmitJiraId(values.jiraUrl, values.jiraId)
        normalizedDescription == Trim(values.description)
    IN  IF Trim(prefs.workerDir) = <<>> \/ SubmitGitUsername = <<>>
        THEN <<FailureToast("Missing Preferences",
                 <<"Set Worker Directory and Git Username in extension preferences.">>)>>
        ELSE IF normalizedDescription = <<>>
        THEN <<FailureToast("Description is required", <<>>)>>
        ELSE IF normalizedJiraId = <<>>
        THEN <<FailureToast("Jira is required",
                 <<"Paste a Jira URL (.../browse/ABC-123) or type an issue key (ABC-123).">>)>>
        ELSE IF ~MatchesIssueKeyPattern(normalizedJiraId)
        THEN <<FailureToast("Invalid JIRA ID",
                 <<"Use the format \"ABC-123\" or paste the Jira URL.">>)>>
        ELSE <<>>

\* handleSubmit, lines 381-415: the toast of the first check that fails, in
\* the order of the code; <<>> when every check passes.
SubmitRejection(values) ==
    LET normalizedJiraId      == SubmitJiraId(values.jiraUrl, values.jiraId)
        normalizedDescription == Trim(values.description)
    IN  IF Trim(prefs.workerDir) = <<>> \/ SubmitGitUsername = <<>>
        THEN <<FailureToast("Missing Preferences",
                 <<"Set Worker Directory and Git Username in extension preferences.">>)>>
        ELSE IF normalizedJiraId = <<>>
        THEN <<FailureToast("Jira is required",
                 <<"Paste a Jira URL (.../browse/ABC-123) or type an issue key (ABC-123).">>)>>
        ELSE IF ~MatchesIssueKeyPattern(normalizedJiraId)
        THEN <<FailureToast("Invalid JIRA ID",
                 <<"Use the format \"ABC-123\" or paste the Jira URL.">>)>>
        ELSE IF normalizedDescription = <<>>
        THEN <<FailureToast("Description is required", <<>>)>>
        ELSE <<>>

\* The user submits the form: handleSubmit up to its first git command.
Submit(baseBranch) ==
    /\ Mounted /\ submit.pc = "idle"
    /\ LET values == [ jiraUrl |-> form.jiraUrlInput,
                       jiraId |-> form.jiraIdInput,
                       description |-> form.description,
                       baseBranch |-> baseBranch ]
           jiraId == SubmitJiraId(values.jiraUrl, values.jiraId)
           branch == BranchName(SubmitGitUsername, jiraId, Trim(values.description))
       IN  IF SubmitRejection(values) # <<>>
           THEN submit' = [ IdleSubmit EXCEPT
                              !.pc = "rejected",
                              !.values = values,
                              !.jiraId = jiraId,
                              !.toasts = SubmitRejection(values),
                              !.openedPreferences =
                                  (SubmitRejection(values)[1].title
                                       = "Missing Preferences") ]
           ELSE submit' = [ IdleSubmit EXCEPT
                              !.pc = "git",
                              !.values = values,
                              !.jiraId = jiraId,
                              !.branchName = branch,
                              !.toasts = << [ style |-> "Animated",
                                              title |-> "Creating branch...",
                                              message |-> <<>> ] >>,
                              !.ran = <<createBranch(baseBranch, branch)[1]>> ]
    /\ UNCHANGED <<prefs, form, inflight, applied, notice, notified, probe, aside>>

\* The git command createBranch awaits exits with status 0: createBranch runs
\* its next command, or returns the branch name to handleSubmit (showHUD,
\* popToRoot).
GitSucceeds ==
    /\ submit.pc = "git"
    /\ LET plan == createBranch(submit.values.baseBranch, submit.branchName)
           n    == Len(submit.ran)
       IN  IF n < Len(plan)
           THEN submit' = [ submit EXCEPT !.exits = Append(@, "ok"),
                                          !.ran = Append(@, plan[n + 1]) ]
           ELSE submit' = [ submit EXCEPT !.exits = Append(@, "ok"),
                                          !.pc = "done",
                                          !.hud = <<"Created branch: ">>
                                                      \o submit.branchName ]
    /\ UNCHANGED <<prefs, form, inflight, applied, notice, notified, probe, aside>>

\* The git command createBranch awaits fails: the rejection propagates to the
\* catch of handleSubmit.
GitFails(stderr) ==
    /\ submit.pc = "git"
    /\ LET cmd == submit.ran[Len(submit.ran)]
       IN  submit' = [ submit EXCEPT
                         !.exits = Append(@, "fail"),
                         !.stderr = stderr,
                         !.pc = "failed",
                         !.toasts = Append(@, FailureToast("Failed to create branch",
                                          CatchMessage(ExecError(cmd, stderr)))) ]
    /\ UNCHANGED <<prefs, form, inflight, applied, notice, notified, probe, aside>>

\* The failure toast goes away; the form can be submitted again.
ToastHides ==
    /\ submit.pc \in {"rejected", "failed"}
    /\ submit' = IdleSubmit
    /\ UNCHANGED <<prefs, form, inflight, applied, notice, notified, probe, aside>>

----------------------------------------------------------------------------

\* Field texts of the auto-fill specification: a link, two references, a
\* typed and a blank description.
AutofillLinkInputs == { <<>>, HTTPS \o <<"j","/","a","b","-","1">> }

AutofillIdInputs == { <<>>, <<"C","D","-","2">> }

AutofillDescInputs == { <<>>, <<" ">>, <<"F","i","x"," ","i","t">> }

\* The form and its description auto-fill.
Next ==
    \/ \E v \in AutofillLinkInputs : EditJiraUrl(v)
    \/ \E v \in AutofillIdInputs : EditJiraId(v)
    \/ \E v \in AutofillDescInputs : EditDescription(v)
    \/ TimerFires
    \/ \E r \in inflight, res \in Responses : LookupReturns(r, res)
    \/ \E r \in inflight, res \in Responses : LookupThrows(r, res)

Spec == Init /\ [][Next]_vars

\* The form and its submission.
NextSubmit ==
    \/ \E v \in LinkInputs : EditJiraUrl(v)
    \/ \E v \in IdInputs : EditJiraId(v)
    \/ \E v \in DescInputs : EditDescription(v)
    \/ \E b \in BaseBranches : Submit(b)
    \/ GitSucceeds
    \/ \E e \in GitStderr : GitFails(e)
    \/ ToastHides

SpecSubmit == Init /\ [][NextSubmit]_vars

\* Descriptions typed in the form that is submitted while its auto-fill goes on.
AdvisoryDescInputs == { <<>>, <<"F","i","x"," ","i","t">> }

\* The form submitted while its description auto-fill goes on.
NextAdvisory ==
    \/ \E v \in AutofillLinkInputs : EditJiraUrl(v)
    \/ \E v \in AutofillIdInputs : EditJiraId(v)
    \/ \E v \in AdvisoryDescInputs : EditDescription(v)
    \/ TimerFires
    \/ \E r \in inflight, res \in Responses : LookupReturns(r, res)
    \/ \E r \in inflight, res \in Responses : LookupThrows(r, res)
    \/ Submit("current")
    \/ GitSucceeds
    \/ \E e \in GitStderr : GitFails(e)
    \/ ToastHides

SpecAdvisory == Init /\ [][NextAdvisory]_vars

----------------------------------------------------------------------------
(* The resolver on its own: every text made of up to MaxParts parts.       *)

Parts ==
    { <<"a","B","-","1">>,
      <<"C","D","-","2">>,
      <<"H","t","t","p","s",":","/","/">>,
      <<"x">>, <<"7">>, <<"_">>, <<"-">>, <<" ">>, <<"/">> }

RECURSIVE TextsOf(_)
TextsOf(n) ==
    IF n = 0 THEN { <<>> }
    ELSE TextsOf(n - 1) \cup { t \o q : t \in TextsOf(n - 1), q \in Parts }

ResolverTexts == TextsOf(MaxParts)

InitResolver ==
    /\ prefs \in Preferences
    /\ form = InitForm
    /\ inflight = {}
    /\ applied = {}
    /\ notice = {}
    /\ notified = {}
    /\ submit = IdleSubmit
    /\ probe \in [ pc : {"ready"}, text : ResolverTexts, out : { <<>> },
                   rejection : { <<>> } ]
    /\ slug = IdleSlug
    /\ fetch = IdleFetch
    /\ pipelines = InitPipelines

\* normalizeJiraIdFromInput applied to the text, as both effects and
\* handleSubmit apply it to a field.
Resolve ==
    /\ probe.pc = "ready"
    /\ probe' = [ probe EXCEPT
                    !.pc = "resolved",
                    !.out = normalizeJiraIdFromInput(probe.text, defaultProjectKey) ]
    /\ UNCHANGED <<prefs, form, inflight, applied, notice, notified, submit, aside>>

\* handleSubmit's checks on a form with the text in its Jira ID field, an empty
\* link field and a description.
SubmitText ==
    /\ probe.pc = "resolved"
    /\ probe' = [ probe EXCEPT
                    !.pc = "submitted",
                    !.rejection = SubmitRejection(
                        [ jiraUrl |-> <<>>, jiraId |-> probe.text,
                          description |-> <<"F","i","x">>,
                          baseBranch |-> "prod" ]) ]
    /\ UNCHANGED <<prefs, form, inflight, applied, notice, notified, submit, aside>>

NextResolver == Resolve \/ SubmitText

SpecResolver == InitResolver /\ [][NextResolver]_vars

----------------------------------------------------------------------------
(* sanitizeDescription on its own: every text of up to MaxSlugLen          *)
(* characters of SlugAlphabet.                                             *)

\* The longest description text sanitizeDescription is applied to.
MaxSlugLen == 4

\* A lower-case and an upper-case letter, a digit, a hyphen and two other
\* characters outside [a-z0-9].
SlugAlphabet == { "a", "B", "7", "-", " ", "_" }

RECURSIVE SlugTexts(_)
SlugTexts(n) ==
    IF n = 0 THEN { <<>> }
    ELSE SlugTexts(n - 1) \cup { Append(t, c) : t \in SlugTexts(n - 1), c \in SlugAlphabet }

InitSlug ==
    /\ prefs \in Preferences
    /\ form = InitForm
    /\ inflight = {}
    /\ applied = {}
    /\ notice = {}
    /\ notified = {}
    /\ submit = IdleSubmit
    /\ probe = IdleProbe
    /\ slug \in [ pc : {"ready"}, text : SlugTexts(MaxSlugLen), out : { <<>> },
                  again : { <<>> } ]
    /\ fetch = IdleFetch
    /\ pipelines = InitPipelines

\* createBranch, line 247: sanitizeDescription(description).
Sanitize ==
    /\ slug.pc = "ready"
    /\ slug' = [ slug EXCEPT !.pc = "once", !.out = sanitizeDescription(slug.text) ]
    /\ UNCHANGED <<prefs, form, inflight, applied, notice, notified, submit, probe,
                   fetch, pipelines>>

\* sanitizeDescription applied to the slug it returned.
SanitizeAgain ==
    /\ slug.pc = "once"
    /\ slug' = [ slug EXCEPT !.pc = "twice", !.again = sanitizeDescription(slug.out) ]
    /\ UNCHANGED <<prefs, form, inflight, applied, notice, notified, submit, probe,
                   fetch, pipelines>>

NextSlug == Sanitize \/ SanitizeAgain

SpecSlug == InitSlug /\ [][NextSlug]_vars

----------------------------------------------------------------------------
(* fetchJiraSummary on its own: one call, and every response to its GET.   *)

\* Response.ok: the status is in the range 200-299.
SuccessStatus == { "200", "201", "204" }

FailureStatus == { "401", "404", "500" }

StatusText ==
    [ st \in SuccessStatus \cup FailureStatus |->
        CASE st = "200" -> <<"OK">>
          [] st = "201" -> <<"Created">>
          [] st = "204" -> <<"No Content">>
          [] st = "401" -> <<"Unauthorized">>
          [] st = "404" -> <<"Not Found">>
          [] st = "500" -> <<"Internal Server Error">> ]

\* The values of fields.summary in a body that holds one.
Summaries == { <<>>, <<" ">>, <<"D","o"," ","i","t"," ">>, <<" ","x">> }

\* The responses to the GET: an error status with a body that is empty, not
\* empty or cannot be read; a success status with a body that is not JSON, or
\* is JSON without or with fields.summary.
FetchResponses ==
    { [ ok |-> FALSE, status |-> st, statusText |-> StatusText[st], body |-> b,
        readable |-> rd, json |-> "invalid", hasSummary |-> FALSE, summary |-> <<>> ] :
          st \in FailureStatus, b \in { <<>>, <<"no such issue">> }, rd \in BOOLEAN }
    \cup
    { [ ok |-> TRUE, status |-> st, statusText |-> StatusText[st], body |-> <<>>,
        readable |-> TRUE, json |-> "invalid", hasSummary |-> FALSE, summary |-> <<>> ] :
          st \in SuccessStatus }
    \cup
    { [ ok |-> TRUE, status |-> st, statusText |-> StatusText[st], body |-> <<>>,
        readable |-> TRUE, json |-> "object", hasSummary |-> FALSE, summary |-> <<>> ] :
          st \in SuccessStatus }
    \cup
    { [ ok |-> TRUE, status |-> st, statusText |-> StatusText[st], body |-> <<>>,
        readable |-> TRUE, json |-> "object", hasSummary |-> TRUE, summary |-> sm ] :
          st \in SuccessStatus, sm \in Summaries }

InitFetch ==
    /\ prefs \in Preferences
    /\ form = InitForm
    /\ inflight = {}
    /\ applied = {}
    /\ notice = {}
    /\ notified = {}
    /\ submit = IdleSubmit
    /\ probe = IdleProbe
    /\ slug = IdleSlug
    /\ fetch = [ pc |-> "ready", gets |-> 0 ]
    /\ pipelines = InitPipelines

\* fetchJiraSummary is called: `await fetch(url, ...)`, line 270.
FetchCalled ==
    /\ fetch.pc = "ready"
    /\ fetch' = [ pc |-> "awaiting", gets |-> fetch.gets + 1 ]
    /\ UNCHANGED <<prefs, form, inflight, applied, notice, notified, submit, probe,
                   slug, pipelines>>

\* The GET returns res: lines 277-285, the call returns or throws.
FetchSettles(res) ==
    /\ fetch.pc = "awaiting"
    /\ fetch' = [ pc |-> "settled", gets |-> fetch.gets, res |-> res,
                  result |-> fetchJiraSummary(res) ]
    /\ UNCHANGED <<prefs, form, inflight, applied, notice, notified, submit, probe,
                   slug, pipelines>>

NextFetch ==
    \/ FetchCalled
    \/ \E res \in FetchResponses : FetchSettles(res)

SpecFetch == InitFetch /\ [][NextFetch]_vars

----------------------------------------------------------------------------
(* The "Open GitLab Pipelines" list (open-gitlab-pipelines.tsx).           *)

\* The number of times the user asks for "Reload Branches".
MaxReloads == 2

\* What loadBranches resolves with: the current ref and the local branches
\* (the last one is a detached HEAD).
LoadResults ==
    { [ currentRef |-> <<"main">>, branches |-> { <<"main">>, <<"feat">> } ],
      [ currentRef |-> <<"feat">>, branches |-> { <<"main">>, <<"feat">> } ],
      [ currentRef |-> <<"1a2b3c4">>, branches |-> { <<"main">> } ] }

\* The ids of the items the list shows.
ItemIds ==
    { <<"open-gitlab">>, <<"pipelines-prod">>, <<"pipelines-staging">> }
    \cup (IF pipelines.currentRef # <<>> THEN { <<"current-branch">> } ELSE {})
    \cup { <<"branch:">> \o b : b \in pipelines.branches }

InitPipelinesList ==
    /\ prefs \in Preferences
    /\ form = InitForm
    /\ inflight = {}
    /\ applied = {}
    /\ notice = {}
    /\ notified = {}
    /\ submit = IdleSubmit
    /\ probe = IdleProbe
    /\ slug = IdleSlug
    /\ fetch = IdleFetch
    /\ pipelines = InitPipelines

\* The "Reload Branches" action: reload() up to its await.
Reload ==
    /\ pipelines.reloaded < MaxReloads
    /\ pipelines' = [ pipelines EXCEPT !.reloaded = @ + 1,
                                       !.loads = @ + 1,
                                       !.isLoading = TRUE,
                                       !.error = <<>> ]
    /\ UNCHANGED <<prefs, form, inflight, applied, notice, notified, submit, probe,
                   slug, fetch>>

\* loadBranches resolves: the rest of reload()'s try block, and finally.
LoadSucceeds(res) ==
    /\ pipelines.loads > 0
    /\ Trim(prefs.workerDir) # <<>>
    /\ pipelines' = [ pipelines EXCEPT !.loads = @ - 1,
                                       !.currentRef = res.currentRef,
                                       !.branches = res.branches,
                                       !.isLoading = FALSE ]
    /\ UNCHANGED <<prefs, form, inflight, applied, notice, notified, submit, probe,
                   slug, fetch>>

\* loadBranches rejects (no workerDir, or a git command failed): reload()'s
\* catch block, and finally.
LoadFails ==
    /\ pipelines.loads > 0
    /\ pipelines' = [ pipelines EXCEPT
                        !.loads = @ - 1,
                        !.error = IF Trim(prefs.workerDir) = <<>>
                                  THEN <<"Missing workerDir preference.">>
                                  ELSE <<"Command failed: git rev-parse --git-dir">>,
                        !.branches = {},
                        !.currentRef = <<>>,
                        !.isLoading = FALSE ]
    /\ UNCHANGED <<prefs, form, inflight, applied, notice, notified, submit, probe,
                   slug, fetch>>

\* onSelectionChange(id), called for a selection made by the user.
SelectionChanges(id) ==
    /\ id \in ItemIds
    /\ IF pipelines.autoSelectingRef \/ id = pipelines.selectedItemId
       THEN pipelines' = [ pipelines EXCEPT
                             !.event = [ id |-> id, recorded |-> FALSE ] ]
       ELSE pipelines' = [ pipelines EXCEPT
                             !.event = [ id |-> id, recorded |-> TRUE ],
                             !.userInteractedRef = TRUE,
                             !.selectedItemId = id ]
    /\ pipelines' # pipelines
    /\ UNCHANGED <<prefs, form, inflight, applied, notice, notified, submit, probe,
                   slug, fetch>>

\* The auto-select effect (deps currentRef, selectedItemId) runs after a
\* render in which a dependency changed: first the cleanup its previous run
\* returned (clearTimeout), then its body.
AutoSelectEffect ==
    /\ pipelines.effectDeps # <<pipelines.currentRef, pipelines.selectedItemId>>
    /\ LET p == [ pipelines EXCEPT
                    !.timer = FALSE,
                    !.effectDeps = <<pipelines.currentRef, pipelines.selectedItemId>> ]
       IN  pipelines' =
             IF p.currentRef = <<>>
             THEN [ p EXCEPT !.autoSelectedRef = FALSE ]
             ELSE IF p.autoSelectedRef \/ p.userInteractedRef
                     \/ p.selectedItemId # <<"open-gitlab">>
             THEN p
             ELSE [ p EXCEPT !.autoSelectedRef = TRUE,
                             !.autoSelectingRef = TRUE,
                             !.selectedItemId = <<"current-branch">>,
                             !.timer = TRUE ]
    /\ UNCHANGED <<prefs, form, inflight, applied, notice, notified, submit, probe,
                   slug, fetch>>

\* The 150 ms timer fires.
AutoSelectTimerFires ==
    /\ pipelines.timer
    /\ pipelines' = [ pipelines EXCEPT !.timer = FALSE, !.autoSelectingRef = FALSE ]
    /\ UNCHANGED <<prefs, form, inflight, applied, notice, notified, submit, probe,
                   slug, fetch>>

\* loadBranches settles.
LoadSettles == LoadFails \/ \E res \in LoadResults : LoadSucceeds(res)

NextPipelines ==
    \/ Reload
    \/ \E res \in LoadResults : LoadSucceeds(res)
    \/ LoadFails
    \/ \E id \in ItemIds : SelectionChanges(id)
    \/ AutoSelectEffect
    \/ AutoSelectTimerFires

\* Effects run after the render, timers fire and git commands end; the user
\* may stop at any time.
SpecPipelines ==
    /\ InitPipelinesList
    /\ [][NextPipelines]_vars
    /\ WF_vars(AutoSelectEffect)
    /\ WF_vars(AutoSelectTimerFires)
    /\ WF_vars(LoadSettles)

----------------------------------------------------------------------------
(* Properties of the resolver (SpecResolver).                              *)

\* w has the shape [A-Z][A-Z0-9_]+-[0-9]+ : a key of two characters or more,
\* one hyphen at position h, one digit or more.
HasKeyShape(w) ==
    \E h \in 3..(Len(w) - 1) :
        /\ w[h] = "-"
        /\ w[1] \in UpperChars
        /\ \A q \in 2..(h - 1) : w[q] \in UpperChars \cup Digit \cup {"_"}
        /\ \A q \in (h + 1)..Len(w) : w[q] \in Digit

\* [A-Z][A-Z0-9_]+ : the shape of a project key.
HasProjectKeyShape(k) ==
    /\ Len(k) >= 2
    /\ k[1] \in UpperChars
    /\ \A q \in 2..Len(k) : k[q] \in UpperChars \cup Digit \cup {"_"}

\* u[i..k] is a whole word of that shape: no word character before or after it.
WholeWordKey(u, i, k) ==
    /\ 1 <= i /\ i <= k /\ k <= Len(u)
    /\ HasKeyShape(SubSeq(u, i, k))
    /\ i = 1 \/ ~IsWordChar(u[i - 1])
    /\ k = Len(u) \/ ~IsWordChar(u[k + 1])

\* The text holds an issue key once upper-cased.
HoldsKey(t) ==
    \E i \in 1..Len(t), k \in 1..Len(t) : WholeWordKey(toUpperCase(t), i, k)

\* The text without its white space.
WithoutSpace(t) == SelectSeq(t, LAMBDA c : c \notin Space)

\* The text is digits only once its white space is removed.
DigitsOnly(t) ==
    /\ WithoutSpace(t) # <<>>
    /\ \A q \in 1..Len(WithoutSpace(t)) : WithoutSpace(t)[q] \in Digit

PreferencesSet ==
    /\ \E q \in 1..Len(prefs.workerDir) : prefs.workerDir[q] \notin Space
    /\ \E q \in 1..Len(prefs.gitUsername) : prefs.gitUsername[q] \notin Space

\* C6: whenever the upper-cased text holds a whole-word substring of shape
\* [A-Z][A-Z0-9_]+-[0-9]+, the resolver returns the first such substring,
\* whatever surrounds it and whether or not the text is a URL.
C6_FirstKeyReturned ==
    probe.pc # "ready" =>
        LET u == toUpperCase(probe.text)
        IN  \A i \in 1..Len(u), k \in 1..Len(u) :
                ( /\ WholeWordKey(u, i, k)
                  /\ \A i2 \in 1..(i - 1), k2 \in 1..Len(u) : ~WholeWordKey(u, i2, k2) )
                => probe.out = SubSeq(u, i, k)

\* C6 witness: a text with two whole-word keys, the first one typed in mixed
\* case; the resolver returned the first, upper-cased.
C6_Witness ==
    /\ probe.pc = "resolved"
    /\ probe.out = <<"A","B","-","1">>
    /\ \E i \in 2..Len(probe.text), k \in 1..Len(probe.text) :
          /\ WholeWordKey(toUpperCase(probe.text), i, k)
          /\ SubSeq(toUpperCase(probe.text), i, k) = <<"C","D","-","2">>

\* C7: an id text that holds no key and is digits only once its white space is
\* removed resolves to defaultProjectKey-digits; one that holds no key and is
\* not digits only resolves to no reference, and the form submitted with it
\* and an empty link (preferences set) is rejected with 'Jira is required'.
C7_DigitsFallback ==
    probe.pc # "ready" /\ ~HoldsKey(probe.text) =>
        IF DigitsOnly(probe.text)
        THEN probe.out = defaultProjectKey \o <<"-">> \o WithoutSpace(probe.text)
        ELSE /\ probe.out = <<>>
             /\ probe.pc = "submitted" /\ PreferencesSet =>
                   /\ Len(probe.rejection) = 1
                   /\ probe.rejection[1].title = "Jira is required"

\* C7 witness: digits with inner white space, resolved with the default
\* project key SYNTH, and the form accepted.
C7_Witness ==
    /\ probe.pc = "submitted"
    /\ probe.text = <<"7"," ","7">>
    /\ probe.out = <<"S","Y","N","T","H","-","7","7">>
    /\ probe.rejection = <<>>

\* C7, second case reached: a text that is neither a key nor digits, rejected.
C7_WitnessNoReference ==
    /\ probe.pc = "submitted"
    /\ probe.text = <<"x","7">>
    /\ probe.out = <<>>
    /\ probe.rejection # <<>>

\* C8 as stated: every non-empty reference the resolver returns has the shape
\* [A-Z][A-Z0-9_]+-[0-9]+, for every default project key.
C8_EveryReferenceCanonical ==
    probe.pc # "ready" /\ probe.out # <<>> => HasKeyShape(probe.out)

\* C8 as amended: a non-empty reference has that shape unless it is the
\* digits-only fallback built on a default project key that itself lacks the
\* shape [A-Z][A-Z0-9_]+ ; and handleSubmit accepts no reference without it.
C8_CanonicalUnlessBadProjectKey ==
    /\ probe.pc # "ready" /\ probe.out # <<>> /\ ~HasKeyShape(probe.out) =>
          /\ ~HasProjectKeyShape(defaultProjectKey)
          /\ DigitsOnly(probe.text)
          /\ probe.out = defaultProjectKey \o <<"-">> \o WithoutSpace(probe.text)
    /\ probe.pc # "ready" /\ probe.out # <<>> /\ HasProjectKeyShape(defaultProjectKey)
          => HasKeyShape(probe.out)
    /\ probe.pc = "submitted" /\ probe.rejection = <<>> => HasKeyShape(probe.out)

\* C8 witness: the one-letter project key X, digits typed: the resolver
\* returned X-7 and handleSubmit rejected it.
C8_Witness ==
    /\ probe.pc = "submitted"
    /\ defaultProjectKey = <<"X">>
    /\ probe.out = <<"X","-","7">>
    /\ Len(probe.rejection) = 1
    /\ probe.rejection[1].title = "Invalid JIRA ID"

----------------------------------------------------------------------------
(* Properties of the submission (SpecSubmit).                              *)

Submitted == submit.pc # "idle"

Accepted == submit.pc \in {"git", "done", "failed"}

Blank(t) == \A q \in 1..Len(t) : t[q] \in Space

\* The first whole-word key of the upper-cased text.
FirstKey(t) ==
    LET u == toUpperCase(t)
        i == CHOOSE i \in 1..Len(u) :
                 /\ \E k \in 1..Len(u) : WholeWordKey(u, i, k)
                 /\ \A i2 \in 1..(i - 1), k2 \in 1..Len(u) : ~WholeWordKey(u, i2, k2)
    IN  SubSeq(u, i, CHOOSE k \in 1..Len(u) : WholeWordKey(u, i, k))

\* The title of the first check of the fixed order that the submitted values
\* fail ("" when they pass all four).
FirstFailingCheck ==
    IF ~PreferencesSet THEN "Missing Preferences"
    ELSE IF submit.jiraId = <<>> THEN "Jira is required"
    ELSE IF ~HasKeyShape(submit.jiraId) THEN "Invalid JIRA ID"
    ELSE IF Blank(submit.values.description) THEN "Description is required"
    ELSE ""

\* C1: a submit whose values fail a check reports exactly one failure, that of
\* the first failing check in the order preferences, ticket presence, ticket
\* pattern, description; and it runs no git command.
C1_FirstFailureOnly ==
    Submitted =>
        IF FirstFailingCheck # ""
        THEN /\ submit.pc = "rejected"
             /\ Len(submit.toasts) = 1
             /\ submit.toasts[1].style = "Failure"
             /\ submit.toasts[1].title = FirstFailingCheck
             /\ submit.ran = <<>>
        ELSE Accepted

\* C1 witness: the reference X-71 fails the pattern and the description is
\* empty; only 'Invalid JIRA ID' is reported.
C1_Witness ==
    /\ submit.pc = "rejected"
    /\ submit.jiraId = <<"X","-","7","1">>
    /\ submit.values.description = <<>>
    /\ submit.toasts[1].title = "Invalid JIRA ID"

\* C2 as stated: a submit whose description has an empty slug is rejected and
\* no branch is created for it.
C2_EmptySlugRejected ==
    Submitted /\ sanitizeDescription(Trim(submit.values.description)) = <<>>
        => submit.pc = "rejected"

\* C3: with base branch prod the commands started are a prefix of checkout
\* prod, pull, checkout -b; with current, checkout -b alone; a command is
\* started only when every command before it exited with success, and none is
\* started after a failure.
C3_StepsInSequence ==
    Accepted =>
        LET new  == <<"git checkout -b ", "\"">> \o submit.branchName \o <<"\"">>
            plan == IF submit.values.baseBranch = "prod"
                    THEN << <<"git checkout prod">>, <<"git pull">>, new >>
                    ELSE << new >>
            n    == Len(submit.ran)
        IN  /\ 1 <= n /\ n <= Len(plan)
            /\ submit.ran = SubSeq(plan, 1, n)
            /\ \A q \in 1..(n - 1) : q <= Len(submit.exits) /\ submit.exits[q] = "ok"
            /\ submit.pc = "git" => Len(submit.exits) = n - 1
            /\ submit.pc = "failed" => Len(submit.exits) = n /\ submit.exits[n] = "fail"
            /\ submit.pc = "done" =>
                  /\ n = Len(plan)
                  /\ Len(submit.exits) = n
                  /\ submit.exits[n] = "ok"

\* C3 witness: git pull failed after checkout prod succeeded; checkout -b was
\* not started.
C3_Witness ==
    /\ submit.pc = "failed"
    /\ submit.values.baseBranch = "prod"
    /\ submit.ran = << <<"git checkout prod">>, <<"git pull">> >>
    /\ submit.exits = <<"ok", "fail">>

C5_NoDigitsFallbackForLink ==
    Submitted /\ ~HoldsKey(submit.values.jiraUrl) =>
        submit.jiraId = normalizeJiraIdFromInput(submit.values.jiraId, defaultProjectKey)

\* C9 as stated: the message of the 'Failed to create branch' toast is the
\* captured stderr of the command that failed.
C9_StderrVerbatim ==
    submit.pc = "failed" =>
        /\ submit.toasts[Len(submit.toasts)].title = "Failed to create branch"
        /\ submit.toasts[Len(submit.toasts)].message = submit.stderr

----------------------------------------------------------------------------
(* Properties of the description auto-fill (Spec).                         *)

\* C10 as stated: the summary of a lookup is not written to the description
\* when the resolved reference changed while the lookup was in flight.
C10_StaleSummaryDiscarded == \A a \in applied : ~a.changed

----------------------------------------------------------------------------
(* Properties of the summary lookup's notifications (Spec).                *)

\* C11: between two 'Failed to fetch Jira summary' toasts for one reference
\* the jiraId state changes: no such toast is shown for a reference a toast
\* was already shown for since jiraId last changed.
C11_NoRepeatNotification ==
    \A n \in notice : ~n.repeat

----------------------------------------------------------------------------
(* The lookup is advisory (SpecAdvisory).                                  *)

\* The outcome handleSubmit must reach on the submitted values and the
\* preferences: its failure toast, or the git commands of createBranch.
OutcomeOfValues ==
    LET v      == submit.values
        ref    == SubmitJiraId(v.jiraUrl, v.jiraId)
        branch == BranchName(SubmitGitUsername, ref, Trim(v.description))
        plan   == createBranch(v.baseBranch, branch)
    IN  IF FirstFailingCheck # ""
        THEN /\ submit.pc = "rejected"
             /\ submit.toasts[1].title = FirstFailingCheck
             /\ submit.ran = <<>>
        ELSE /\ Accepted
             /\ Len(submit.ran) \in 1..Len(plan)
             /\ submit.ran = SubSeq(plan, 1, Len(submit.ran))

\* C12: a failing lookup leaves the description, the link field, the id field,
\* the resolved reference and the submission as they are; and the outcome of
\* a submit, made in whatever state the lookup is in, is determined by the
\* submitted values and the preferences.
C12_LookupAdvisory ==
    /\ [][ (\E r \in inflight, res \in Responses : LookupThrows(r, res))
             => /\ form'.description = form.description
                /\ form'.jiraUrlInput = form.jiraUrlInput
                /\ form'.jiraIdInput = form.jiraIdInput
                /\ form'.jiraId = form.jiraId
                /\ submit' = submit ]_vars
    /\ [](Submitted => OutcomeOfValues)

\* C12 witness: the lookup for the reference of the form failed, another one
\* is in flight, and the submit made in that state created the branch.
C12_Witness ==
    /\ form.lastAutofillErrorJiraIdRef = form.jiraId
    /\ form.jiraId # <<>>
    /\ notice # {}
    /\ inflight # {}
    /\ submit.pc = "done"
    /\ submit.values.description = form.description

----------------------------------------------------------------------------
(* The branch created (SpecSubmit).                                        *)

\* C13: a submit that passes validation creates the branch named
\* <git username without white space>/<resolved reference>/<slug of the
\* trimmed description>, and the success message reports that name.
C13_BranchNamed ==
    LET name == WithoutSpace(prefs.gitUsername) \o <<"/">> \o submit.jiraId
                    \o <<"/">> \o sanitizeDescription(Trim(submit.values.description))
    IN  /\ Accepted => submit.branchName = name
        /\ submit.pc = "done" =>
               /\ submit.ran[Len(submit.ran)]
                      = <<"git checkout -b ", "\"">> \o name \o <<"\"">>
               /\ submit.hud = <<"Created branch: ">> \o name

\* C13 witness: git username 'j d', link https://j/ab-1, description
\* 'Fix it': the branch jd/AB-1/fix-it was created and reported.
C13_Witness ==
    /\ submit.pc = "done"
    /\ prefs.gitUsername = <<"j"," ","d">>
    /\ submit.values.description = <<"F","i","x"," ","i","t">>
    /\ submit.hud = <<"Created branch: ", "j","d","/","A","B","-","1","/",
                      "f","i","x","-","i","t">>

----------------------------------------------------------------------------
(* Properties of the slug (SpecSlug).                                      *)

\* C14: the slug holds only characters of [a-z0-9-], neither starts nor ends
\* with a hyphen, holds no two hyphens in a row, and is empty exactly when the
\* lower-cased text holds no character of [a-z0-9].
C14_SlugShape ==
    slug.pc # "ready" =>
        LET s == slug.out
            t == toLowerCase(slug.text)
        IN  /\ \A q \in 1..Len(s) : s[q] \in LowerChars \cup Digit \cup {"-"}
            /\ s # <<>> => s[1] # "-" /\ s[Len(s)] # "-"
            /\ \A q \in 1..(Len(s) - 1) : ~(s[q] = "-" /\ s[q + 1] = "-")
            /\ s = <<>> <=> \A q \in 1..Len(t) : t[q] \notin LowerChars \cup Digit

\* C14 witness: 'B -7' gave 'b-7'; the run ' -' became one hyphen.
C14_Witness ==
    /\ slug.pc = "once"
    /\ slug.text = <<"B"," ","-","7">>
    /\ slug.out = <<"b","-","7">>

\* C15: sanitizeDescription applied to a slug it returned returns that slug.
C15_Idempotent ==
    slug.pc = "twice" => slug.again = slug.out

\* C15 witness: ' a_B' gave 'a-b', and 'a-b' gave 'a-b' again.
C15_Witness ==
    /\ slug.pc = "twice"
    /\ slug.text = <<" ","a","_","B">>
    /\ slug.out = <<"a","-","b">>
    /\ slug.again = <<"a","-","b">>

----------------------------------------------------------------------------
(* Properties of fetchJiraSummary (SpecFetch).                             *)

C16_WitnessUnreadable ==
    /\ fetch.pc = "settled"
    /\ fetch.res.status = "404"
    /\ ~fetch.res.readable
    /\ fetch.res.body # <<>>
    /\ fetch.result.message = <<"Jira request failed (", "404", "): ", "Not Found">>

----------------------------------------------------------------------------
(* The reference a submit uses (SpecSubmit).                               *)

\* C17: the reference an accepted submit puts in the branch name is the one
\* derived from the Jira ID field, which is the jiraId state the summary
\* lookup is made for.
C17_ReferenceFromIdField ==
    Accepted =>
        /\ submit.jiraId = normalizeJiraIdFromInput(submit.values.jiraId,
                                                    defaultProjectKey)
        /\ submit.jiraId = form.jiraId

----------------------------------------------------------------------------
(* The description the user typed (Spec).                                  *)

\* C18: once the user typed a description that is not blank, no lookup that
\* completes replaces it.
C18_TypedDescriptionKept ==
    [][ ( /\ form.descriptionDirty
          /\ Trim(form.description) # <<>>
          /\ \E r \in inflight, res \in Responses : LookupReturns(r, res) )
        => form'.description = form.description ]_vars

----------------------------------------------------------------------------
(* The auto-selecting flag of the pipelines list (SpecPipelines).          *)

\* C19: once the automatic selection of 'current-branch' set
\* autoSelectingRef, the flag is cleared again, so that the selections the
\* user makes afterwards are recorded.
C19_AutoSelectingCleared ==
    pipelines.autoSelectingRef ~> ~pipelines.autoSelectingRef

============================================================================
